---- MODULE Spec2Model ----
(***************************************************************************)
(* Model of the PCAP table function of duckdb_pcap_reader                   *)
(* (src/src/pcap_reader.c, src/src/include/pcap_reader.h).                  *)
(*                                                                          *)
(* A byte is 0..255.  A uint32_t is a 4-tuple of bytes, most significant    *)
(* first; a uint64_t an 8-tuple, most significant first.  The capture file  *)
(* is a sequence of bytes in address order, read on a little-endian host.   *)
(* malloc(0) returns a non-null zero-capacity block, as glibc, musl, macOS  *)
(* and the MSVC runtime do; an allocation of any size can fail when the     *)
(* environment injects an allocation failure.                               *)
(***************************************************************************)
EXTENDS Integers, Sequences, FiniteSets, TLC

\* ------------------------------------------------------------------ bounds
MaxRecs  == 2      \* records encoded into one stream
MaxBatch == 2      \* largest batch size (duckdb_vector_size()) tried
MaxPulls == MaxRecs + 2
MaxNullPulls == 2  \* calls of the function tried after a failed init

\* ------------------------------------------------------- integers as digits
ToU32(n) == <<n \div 16777216, (n \div 65536) % 256, (n \div 256) % 256, n % 256>>

U64FromU32(v) == <<0, 0, 0, 0>> \o v

\* U32Gt with >= for >.
U32GtOrEqual(a, b) ==
    a = b \/ \E i \in 1..4 : a[i] > b[i] /\ \A j \in 1..(i - 1) : a[j] = b[j]

\* a > b on uint32_t
U32Gt(a, b) ==
    \E i \in 1..4 : a[i] > b[i] /\ \A j \in 1..(i - 1) : a[j] = b[j]

\* Value of a uint32_t used as a byte count, saturated at 65536: every stream
\* of the model is shorter than that, so min(avail, n) is exact.
Count(v) == IF v[1] = 0 /\ v[2] = 0 THEN v[3] * 256 + v[4] ELSE 65536

Min(a, b) == IF a < b THEN a ELSE b

Limb(x, k) == x[8 - k]

RECURSIVE ColSum(_, _, _, _)
ColSum(x, y, k, i) ==
    IF i > k THEN 0 ELSE Limb(x, i) * Limb(y, k - i) + ColSum(x, y, k, i + 1)

\* The bytes k..7 of x * y (byte 0 the least significant), most significant
\* first, given the carry into byte k.
RECURSIVE MulFrom(_, _, _, _)
MulFrom(x, y, k, carry) ==
    IF k = 8 THEN <<>>
    ELSE LET t == ColSum(x, y, k, 0) + carry
         IN  Append(MulFrom(x, y, k + 1, t \div 256), t % 256)

\* x * y on uint64_t (modulo 2^64)
Mul64(x, y) == MulFrom(x, y, 0, 0)

RECURSIVE AddFrom(_, _, _, _)
AddFrom(x, y, k, carry) ==
    IF k = 8 THEN <<>>
    ELSE LET t == Limb(x, k) + Limb(y, k) + carry
         IN  Append(AddFrom(x, y, k + 1, t \div 256), t % 256)

\* x + y on uint64_t (modulo 2^64)
Add64(x, y) == AddFrom(x, y, 0, 0)

\* ------------------------------------------------------ pcap_reader.h
PCAP_MAGIC_NATIVE       == <<161, 178, 195, 212>>    \* 0xa1b2c3d4
PCAP_MAGIC_SWAPPED      == <<212, 195, 178, 161>>    \* 0xd4c3b2a1
PCAP_MAGIC_NANO_NATIVE  == <<161, 178, 60, 77>>      \* 0xa1b23c4d
PCAP_MAGIC_NANO_SWAPPED == <<77, 60, 178, 161>>      \* 0x4d3cb2a1

FileHeaderSize   == 24     \* sizeof(pcap_file_header_t)
PacketHeaderSize == 16     \* sizeof(pcap_packet_header_t)
SnaplenOffset    == 16     \* offsetof(pcap_file_header_t, snaplen)

\* ------------------------------------------------------ pcap_reader.c
\* Swap byte order for 32-bit values
swap32(value) == <<value[4], value[3], value[2], value[1]>>

\* A uint32_t struct member filled by fread on a little-endian host.
LoadU32(bytes, off) ==
    <<bytes[off + 4], bytes[off + 3], bytes[off + 2], bytes[off + 1]>>

\* SwapHeader with the swap of len lost.
SwapHeaderLenUnswapped(h) ==
    [ts_sec  |-> swap32(h.ts_sec),
     ts_usec |-> swap32(h.ts_usec),
     caplen  |-> swap32(h.caplen),
     len     |-> h.len]

\* Swap bytes if needed: the four fields of a packet header
SwapHeader(h) ==
    [ts_sec  |-> swap32(h.ts_sec),
     ts_usec |-> swap32(h.ts_usec),
     caplen  |-> swap32(h.caplen),
     len     |-> swap32(h.len)]

\* TimestampNs with the microsecond field added unscaled in both units.
TimestampNsUnscaled(h, is_nanosecond) ==
    Add64(Mul64(U64FromU32(h.ts_sec), U64FromU32(ToU32(1000000000))),
          U64FromU32(h.ts_usec))

\* TimestampNs without the (uint64_t) casts: the products are made in 32 bits.
TimestampNsNoCast(h, is_nanosecond) ==
    LET Low32(x) == <<0, 0, 0, 0, x[5], x[6], x[7], x[8]>>
        secs     == Low32(Mul64(U64FromU32(h.ts_sec),
                                U64FromU32(ToU32(1000000000))))
    IN  IF is_nanosecond
        THEN Add64(secs, U64FromU32(h.ts_usec))
        ELSE Add64(secs, Low32(Mul64(U64FromU32(h.ts_usec),
                                     U64FromU32(ToU32(1000)))))

\* Convert timestamp to nanoseconds
TimestampNs(h, is_nanosecond) ==
    IF is_nanosecond
    THEN Add64(Mul64(U64FromU32(h.ts_sec), U64FromU32(ToU32(1000000000))),
               U64FromU32(h.ts_usec))
    ELSE Add64(Mul64(U64FromU32(h.ts_sec), U64FromU32(ToU32(1000000000))),
               Mul64(U64FromU32(h.ts_usec), U64FromU32(ToU32(1000))))

\* Negotiate with the two swapped magics taken for each other.
NegotiateExchanged(magic_number) ==
    IF magic_number = PCAP_MAGIC_NATIVE
    THEN [ok |-> TRUE, needs_swap |-> FALSE, is_nanosecond |-> FALSE]
    ELSE IF magic_number = PCAP_MAGIC_NANO_SWAPPED
    THEN [ok |-> TRUE, needs_swap |-> TRUE, is_nanosecond |-> FALSE]
    ELSE IF magic_number = PCAP_MAGIC_NANO_NATIVE
    THEN [ok |-> TRUE, needs_swap |-> FALSE, is_nanosecond |-> TRUE]
    ELSE IF magic_number = PCAP_MAGIC_SWAPPED
    THEN [ok |-> TRUE, needs_swap |-> TRUE, is_nanosecond |-> TRUE]
    ELSE [ok |-> FALSE, needs_swap |-> FALSE, is_nanosecond |-> FALSE]

\* Negotiate with the final else branch lost: an unknown magic is read as
\* the native microsecond one.
NegotiateLax(magic_number) ==
    IF magic_number = PCAP_MAGIC_SWAPPED
    THEN [ok |-> TRUE, needs_swap |-> TRUE, is_nanosecond |-> FALSE]
    ELSE IF magic_number = PCAP_MAGIC_NANO_NATIVE
    THEN [ok |-> TRUE, needs_swap |-> FALSE, is_nanosecond |-> TRUE]
    ELSE IF magic_number = PCAP_MAGIC_NANO_SWAPPED
    THEN [ok |-> TRUE, needs_swap |-> TRUE, is_nanosecond |-> TRUE]
    ELSE [ok |-> TRUE, needs_swap |-> FALSE, is_nanosecond |-> FALSE]

\* Check magic number and determine byte swapping and timestamp precision
Negotiate(magic_number) ==
    IF magic_number = PCAP_MAGIC_NATIVE
    THEN [ok |-> TRUE, needs_swap |-> FALSE, is_nanosecond |-> FALSE]
    ELSE IF magic_number = PCAP_MAGIC_SWAPPED
    THEN [ok |-> TRUE, needs_swap |-> TRUE, is_nanosecond |-> FALSE]
    ELSE IF magic_number = PCAP_MAGIC_NANO_NATIVE
    THEN [ok |-> TRUE, needs_swap |-> FALSE, is_nanosecond |-> TRUE]
    ELSE IF magic_number = PCAP_MAGIC_NANO_SWAPPED
    THEN [ok |-> TRUE, needs_swap |-> TRUE, is_nanosecond |-> TRUE]
    ELSE [ok |-> FALSE, needs_swap |-> FALSE, is_nanosecond |-> FALSE]

\* ------------------------------------------------------ FILE
\* FreadItem leaving the position where it was after a whole item.
FreadItemRewinds(s, f, size) ==
    IF Len(s) - f.pos >= size
    THEN [ok |-> TRUE, bytes |-> SubSeq(s, f.pos + 1, f.pos + size),
          file |-> f]
    ELSE [ok |-> FALSE, bytes |-> <<>>,
          file |-> [pos |-> Len(s), eof |-> TRUE]]

\* A FILE over the byte sequence s: the read position and the end-of-file
\* indicator.  fread(ptr, size, 1, f): one item of `size` bytes; a short item
\* consumes what is left and sets the indicator.
FreadItem(s, f, size) ==
    IF Len(s) - f.pos >= size
    THEN [ok |-> TRUE, bytes |-> SubSeq(s, f.pos + 1, f.pos + size),
          file |-> [pos |-> f.pos + size, eof |-> f.eof]]
    ELSE [ok |-> FALSE, bytes |-> <<>>,
          file |-> [pos |-> Len(s), eof |-> TRUE]]

\* fread(ptr, 1, n, f): up to n bytes; the indicator is set when fewer than n
\* are left, and a request for 0 bytes touches nothing.
FreadBytes(s, f, n) ==
    LET got == Min(Len(s) - f.pos, Count(n))
    IN  [got |-> got, bytes |-> SubSeq(s, f.pos + 1, f.pos + got),
         file |-> [pos |-> f.pos + got, eof |-> f.eof \/ got < Count(n)]]

\* ------------------------------------------------------ PcapReaderInit
\* No init data: duckdb_function_get_init_data returns NULL.
NULL == [null |-> TRUE]

\* The error return of init: its calls on the allocator and on stdio so far.
InitFailed(message, calls) ==
    [state |-> NULL, error |-> message, calls |-> calls]

\* fopen, made for a named file only: stdin is used as it is.
OpenCalls(stdin) == IF stdin THEN <<>> ELSE <<"fopen">>

\* CloseOnError with the fclose forgotten.
CloseOnErrorNever(stdin) == <<>>

\* if (!state->is_stdin) fclose(state->file), on the error returns of init
CloseOnError(stdin) == IF stdin THEN <<>> ELSE <<"fclose">>

\* PcapReaderInit on the byte sequence s.  open_ok: fopen finds the file;
\* oom: the allocation the environment fails ("none", "state" or "buffer").
InitData(s, stdin, open_ok, oom) ==
    IF oom = "state"
    THEN InitFailed("Failed to allocate memory for init state", <<>>)
    ELSE IF ~stdin /\ ~open_ok
    THEN InitFailed("Failed to open pcap file", <<"malloc_state", "free_state">>)
    ELSE LET hr     == FreadItem(s, [pos |-> 0, eof |-> FALSE], FileHeaderSize)
             opened == <<"malloc_state">> \o OpenCalls(stdin) \o <<"use_file">>
             undone == CloseOnError(stdin) \o <<"free_state">>
         IN
    IF ~hr.ok
    THEN InitFailed("Failed to read pcap file header", opened \o undone)
    ELSE LET magic_number == LoadU32(hr.bytes, 0)
             raw_snaplen  == LoadU32(hr.bytes, SnaplenOffset)
             neg          == Negotiate(magic_number)
             snaplen      == IF neg.needs_swap THEN swap32(raw_snaplen)
                             ELSE raw_snaplen
         IN
    IF ~neg.ok
    THEN InitFailed("Invalid pcap file magic number", opened \o undone)
    ELSE IF oom = "buffer"
    THEN InitFailed("Failed to allocate packet buffer", opened \o undone)
    ELSE [state |->
             [file          |-> hr.file,
              file_header   |-> [magic_number |-> magic_number,
                                 snaplen      |-> snaplen],
              needs_swap    |-> neg.needs_swap,
              is_nanosecond |-> neg.is_nanosecond,
              is_stdin      |-> stdin,
              packet_buffer |-> <<>>,
              buffer_size   |-> snaplen],
          error |-> "none",
          calls |-> opened \o <<"malloc_buffer">>]

\* ------------------------------------------------------ PcapReaderInitDataFree
\* The calls of the destructor on a non-null state: file and packet_buffer
\* are non-null in every state init installs.
FreeCalls(st) ==
    (IF ~st.is_stdin THEN <<"fclose">> ELSE <<>>)
        \o <<"free_buffer", "free_state">>

\* ------------------------------------------------------ PcapReaderFunction
\* PayloadShort with the check of the payload read lost.
PayloadNeverShort(got, caplen) == FALSE

\* PayloadShort with a read of no byte taken for the end of the file.
PayloadShortOrNone(got, caplen) == got = 0 \/ got # Count(caplen)

\* fread(...) != packet_header.caplen
PayloadShort(got, caplen) == got # Count(caplen)

\* The bytes of the reusable buffer after fread stored `bytes` at its start;
\* packet_buffer holds the bytes written since the buffer was allocated.
BufferAfterRead(packet_buffer, bytes) ==
    bytes \o SubSeq(packet_buffer, Len(bytes) + 1, Len(packet_buffer))

\* Grow with the update of buffer_size lost.
GrowSizeKept(st, caplen) == [st EXCEPT !.packet_buffer = <<>>]

\* Reallocate buffer if packet is larger than current buffer
Grow(st, caplen) ==
    [st EXCEPT !.packet_buffer = <<>>, !.buffer_size = caplen]

\* RowOf with the two length columns taken for each other.
RowOfLengthsExchanged(timestamp_ns, packet_header, packet_buffer) ==
    [timestamp_ns |-> timestamp_ns,
     original_len |-> packet_header.caplen,
     capture_len  |-> packet_header.len,
     data         |-> SubSeq(packet_buffer, 1,
                             Min(Count(packet_header.caplen), Len(packet_buffer)))]

\* Set output values: the row of a decoded packet.  The blob is a copy of the
\* first caplen bytes of the buffer, all of them written by the read before.
RowOf(timestamp_ns, packet_header, packet_buffer) ==
    [timestamp_ns |-> timestamp_ns,
     original_len |-> packet_header.len,
     capture_len  |-> packet_header.caplen,
     data         |-> SubSeq(packet_buffer, 1,
                             Min(Count(packet_header.caplen), Len(packet_buffer)))]

\* LoopContinues with <= for <.
LoopContinuesOneMore(row_count, max_rows, file) ==
    row_count <= max_rows /\ ~file.eof

\* row_count < max_rows && !feof(state->file)
LoopContinues(row_count, max_rows, file) ==
    row_count < max_rows /\ ~file.eof

\* What one iteration of the while loop did: pos, the read position before
\* its packet header; caplen, the captured length it read; size_before, the
\* capacity when the header was read; size_at_read, the capacity at the
\* payload read; grew, the buffer was replaced; outcome, how it ended
\* ("short_header", "oom", "short_payload" or "row").
Iteration(st, outcome, caplen, size_at_read, grew) ==
    [pos          |-> st.file.pos,
     outcome      |-> outcome,
     caplen       |-> caplen,
     size_before  |-> st.buffer_size,
     size_at_read |-> size_at_read,
     grew         |-> grew]

\* The while loop.  rows: the rows of the chunk so far; fail: the number of
\* the duckdb_malloc call of this pull that returns NULL (0: none); calls:
\* the duckdb_malloc calls made so far; reads: packet headers requested.
\* oom in the result: the loop ended on a duckdb_malloc that returned NULL;
\* log: the iterations made from here on.
RECURSIVE ReadLoop(_, _, _, _, _, _, _)
ReadLoop(s, st, rows, max_rows, fail, calls, reads) ==
    IF ~LoopContinues(Len(rows), max_rows, st.file)
    THEN [state |-> st, rows |-> rows, reads |-> reads, oom |-> FALSE,
          log |-> <<>>]
    ELSE LET hr == FreadItem(s, st.file, PacketHeaderSize) IN
    IF ~hr.ok
    THEN [state |-> [st EXCEPT !.file = hr.file], rows |-> rows,
          reads |-> reads + 1, oom |-> FALSE,
          log |-> <<Iteration(st, "short_header", <<0, 0, 0, 0>>,
                              st.buffer_size, FALSE)>>]
    ELSE LET raw == [ts_sec  |-> LoadU32(hr.bytes, 0),
                     ts_usec |-> LoadU32(hr.bytes, 4),
                     caplen  |-> LoadU32(hr.bytes, 8),
                     len     |-> LoadU32(hr.bytes, 12)]
             packet_header == IF st.needs_swap THEN SwapHeader(raw) ELSE raw
             timestamp_ns  == TimestampNs(packet_header, st.is_nanosecond)
             grows         == U32Gt(packet_header.caplen, st.buffer_size)
             st1           == [st EXCEPT !.file = hr.file]
         IN
    IF grows /\ calls + 1 = fail
    THEN [state |-> st1, rows |-> rows, reads |-> reads + 1, oom |-> TRUE,
          log |-> <<Iteration(st, "oom", packet_header.caplen,
                              st.buffer_size, FALSE)>>]
    ELSE LET st2 == IF grows THEN Grow(st1, packet_header.caplen) ELSE st1
             dr  == FreadBytes(s, st2.file, packet_header.caplen)
             st3 == [st2 EXCEPT !.file = dr.file,
                                !.packet_buffer =
                                    BufferAfterRead(st2.packet_buffer, dr.bytes)]
         IN
    IF PayloadShort(dr.got, packet_header.caplen)
    THEN [state |-> st3, rows |-> rows, reads |-> reads + 1, oom |-> FALSE,
          log |-> <<Iteration(st, "short_payload", packet_header.caplen,
                              st2.buffer_size, grows)>>]
    ELSE LET rest == ReadLoop(s, st3,
                              Append(rows, RowOf(timestamp_ns, packet_header,
                                                 st3.packet_buffer)),
                              max_rows, fail,
                              IF grows THEN calls + 1 ELSE calls, reads + 1)
         IN  [rest EXCEPT !.log =
                 <<Iteration(st, "row", packet_header.caplen,
                             st2.buffer_size, grows)>> \o @]

\* One call of PcapReaderFunction: the chunk it returns and the state it leaves.
Chunk(s, st, max_rows, fail) ==
    IF st = NULL
    THEN [state |-> st, rows |-> <<>>, reads |-> 0, oom |-> FALSE,
          log |-> <<>>]
    ELSE ReadLoop(s, st, <<>>, max_rows, fail, 0, 0)

\* The calls of one pull on the allocator and on stdio, from its iterations:
\* the header fread; on growth duckdb_malloc of the new buffer, then
\* duckdb_free of the old one; the payload fread into the buffer, from which
\* the row is copied.
RECURSIVE PullCalls(_)
PullCalls(log) ==
    IF log = <<>> THEN <<>>
    ELSE LET e == Head(log) IN
         (IF e.grew THEN <<"use_file", "malloc_buffer", "free_buffer">>
          ELSE <<"use_file">>)
         \o (IF e.outcome \in {"short_payload", "row"}
             THEN <<"use_buffer">> ELSE <<>>)
         \o PullCalls(Tail(log))

\* ------------------------------------------------------ resources
\* The ledger of one decoder: how often each resource was acquired and
\* released, and whether a call was made that C leaves undefined (bad): a
\* release of what is not held, or a use of what was released.
NoCalls ==
    [fopen |-> 0, fclose |-> 0, malloc_state |-> 0, free_state |-> 0,
     malloc_buffer |-> 0, free_buffer |-> 0, bad |-> FALSE]

Call(r, c, stdin) ==
    CASE c = "fopen"         -> [r EXCEPT !.fopen = @ + 1]
      [] c = "fclose"        -> [r EXCEPT !.fclose = @ + 1,
                                          !.bad = @ \/ r.fclose >= r.fopen]
      [] c = "malloc_state"  -> [r EXCEPT !.malloc_state = @ + 1]
      [] c = "free_state"    -> [r EXCEPT !.free_state = @ + 1,
                                          !.bad = @ \/ r.free_state >= r.malloc_state]
      [] c = "malloc_buffer" -> [r EXCEPT !.malloc_buffer = @ + 1]
      [] c = "free_buffer"   -> [r EXCEPT !.free_buffer = @ + 1,
                                          !.bad = @ \/ r.free_buffer >= r.malloc_buffer]
      [] c = "use_file"      -> IF \/ ~stdin /\ r.fclose >= r.fopen
                                   \/ r.free_state >= r.malloc_state
                                THEN [r EXCEPT !.bad = TRUE] ELSE r
      [] c = "use_buffer"    -> IF r.free_buffer >= r.malloc_buffer
                                THEN [r EXCEPT !.bad = TRUE] ELSE r

RECURSIVE Tally(_, _, _)
Tally(r, calls, stdin) ==
    IF calls = <<>> THEN r
    ELSE Tally(Call(r, Head(calls), stdin), Tail(calls), stdin)

\* ------------------------------------------------------ capture files
\* The byte format of pcap_reader.h, as a writer produces it.  A value is
\* stored least significant byte first by a writer of the host's byte order
\* and most significant byte first by a writer of the other one.
Reverse4(b) == <<b[4], b[3], b[2], b[1]>>

StoreU32(v) == <<v[4], v[3], v[2], v[1]>>

Foreign(magic_number) ==
    magic_number \in {PCAP_MAGIC_SWAPPED, PCAP_MAGIC_NANO_SWAPPED}

FieldBytes(v, foreign) == IF foreign THEN Reverse4(StoreU32(v)) ELSE StoreU32(v)

\* version_major = 2, version_minor = 4, thiszone = 0, sigfigs = 0
MetaBytes(foreign) ==
    (IF foreign THEN <<0, 2, 0, 4>> ELSE <<2, 0, 4, 0>>) \o <<0, 0, 0, 0, 0, 0, 0, 0>>

\* network = 1 (LINKTYPE_ETHERNET)
NetworkBytes(foreign) == FieldBytes(ToU32(1), foreign)

RECURSIVE EncodeRecords(_, _, _)
EncodeRecords(rs, foreign, flip) ==
    IF rs = <<>> THEN <<>>
    ELSE LET r    == Head(rs)
             F(v) == IF flip THEN Reverse4(FieldBytes(v, foreign))
                     ELSE FieldBytes(v, foreign)
         IN  F(r.ts_sec) \o F(r.ts_usec) \o F(ToU32(Len(r.data))) \o F(r.len)
             \o r.data \o EncodeRecords(Tail(rs), foreign, flip)

\* The capture file holding the records rs under the magic the reader sees.
\* flip: with the magic, the snaplen and the four fields of every record
\* header byte-reversed (payload and the other header fields unchanged).
EncodeFile(magic_number, snap, rs, flip) ==
    LET foreign == Foreign(magic_number)
        F(v)    == IF flip THEN Reverse4(FieldBytes(v, foreign))
                   ELSE FieldBytes(v, foreign)
    IN  (IF flip THEN Reverse4(StoreU32(magic_number)) ELSE StoreU32(magic_number))
        \o MetaBytes(foreign) \o F(snap) \o NetworkBytes(foreign)
        \o EncodeRecords(rs, foreign, flip)

Prefix(s, n) == SubSeq(s, 1, n)

ValidMagics ==
    {PCAP_MAGIC_NATIVE, PCAP_MAGIC_SWAPPED,
     PCAP_MAGIC_NANO_NATIVE, PCAP_MAGIC_NANO_SWAPPED}

\* 0xa1b2c3d5, 0, 0x0a0d0d0a (pcapng), 0xa1b2d4c3, 0xb2a1d4c3, 0xffffffff
InvalidMagics ==
    {<<161, 178, 195, 213>>, <<0, 0, 0, 0>>, <<10, 13, 13, 10>>,
     <<161, 178, 212, 195>>, <<178, 161, 212, 195>>, <<255, 255, 255, 255>>}

Snaplens == {ToU32(0), ToU32(2)}

Pool ==
    {[ts_sec |-> ToU32(1), ts_usec |-> ToU32(500000), len |-> ToU32(60),
      data |-> <<>>],
     [ts_sec |-> ToU32(1), ts_usec |-> ToU32(500), len |-> ToU32(1000),
      data |-> <<170, 187>>],
     [ts_sec |-> ToU32(5), ts_usec |-> ToU32(999999), len |-> ToU32(16),
      data |-> <<1, 2, 3, 4, 5, 6, 7, 8, 0, 0, 0, 0, 9, 10, 11, 12>>]}

RecSeqs == UNION {[1..k -> Pool] : k \in 0..MaxRecs}

Front(rs) == SubSeq(rs, 1, Len(rs) - 1)

\* The lengths at which the file of rs is cut, or not: in its last record
\* after 1 byte, after 15 bytes, after the packet header, before the last
\* payload byte and after it (the whole file); with no record, an empty
\* file, the magic alone, one byte short of the file header and all of it.
Cuts(magic_number, snap, rs) ==
    IF rs = <<>> THEN {0, 4, FileHeaderSize - 1, FileHeaderSize}
    ELSE LET base == Len(EncodeFile(magic_number, snap, Front(rs), FALSE))
             n    == Len(rs[Len(rs)].data)
         IN  {base + 1, base + PacketHeaderSize - 1, base + PacketHeaderSize,
              base + PacketHeaderSize + n - 1, base + PacketHeaderSize + n}

\* ------------------------------------------------------ state
VARIABLES
    magic, snaplen, recs,   \* how the file was written
    stream,                 \* the bytes of the file
    is_stdin,               \* bind data: the file name is "-" or /dev/stdin
    max_rows,               \* duckdb_vector_size()
    phase,                  \* "bound", "inited", "freed"
    state,                  \* the init data (pcap_reader_state_t), or NULL
    init_error,             \* the message of duckdb_init_set_error, or "none"
    batches,                \* the chunks returned so far
    hdr_reads,              \* packet headers requested from the file so far
    oom_pull,               \* the first pull in which duckdb_malloc failed, or 0
    twin,                   \* the same scan over TwinStream
    res,                    \* the ledger of the decoder's resources
    last_pull,              \* the state before the last pull, its iterations
    peer,                   \* a second table function scan, over its own file
    conv                    \* a standalone timestamp conversion

vars == <<magic, snaplen, recs, stream, is_stdin, max_rows, phase, state,
          init_error, batches, hdr_reads, oom_pull, twin, res, last_pull,
          peer, conv>>

\* The file of the twin scan: for a file of native byte order, the same file
\* with magic, snaplen and packet header fields byte-reversed; none else.
TwinStream ==
    IF magic \in {PCAP_MAGIC_NATIVE, PCAP_MAGIC_NANO_NATIVE}
    THEN Prefix(EncodeFile(magic, snaplen, recs, TRUE), Len(stream))
    ELSE <<>>

NoPull == [before |-> NULL, log |-> <<>>, oom |-> FALSE]

\* no second scan
NoPeer ==
    [stream |-> <<>>, phase |-> "absent", state |-> NULL,
     init_error |-> "none", batches |-> <<>>]

\* no conversion
NoConv == [phase |-> "absent"]

\* the scan before PcapReaderInit
Bound ==
    /\ phase = "bound"
    /\ state = NULL
    /\ init_error = "none"
    /\ batches = <<>>
    /\ hdr_reads = 0
    /\ oom_pull = 0
    /\ twin = [state |-> NULL, error |-> "none", batches |-> <<>>]
    /\ res = NoCalls
    /\ last_pull = NoPull

Init ==
    /\ \/ /\ magic \in ValidMagics
          /\ snaplen \in Snaplens
          /\ recs \in RecSeqs
          /\ \E n \in Cuts(magic, snaplen, recs) :
                stream = Prefix(EncodeFile(magic, snaplen, recs, FALSE), n)
       \/ /\ magic \in InvalidMagics
          /\ snaplen = ToU32(2)
          /\ recs \in {rs \in RecSeqs : Len(rs) <= 1}
          /\ stream = EncodeFile(magic, snaplen, recs, FALSE)
    /\ is_stdin \in BOOLEAN
    /\ max_rows \in (IF is_stdin THEN {MaxBatch} ELSE 1..MaxBatch)
    /\ Bound
    /\ peer = NoPeer
    /\ conv = NoConv

\* ------------------------------------------------------ actions
\* GetInitData handing out one state to every scan.
GetInitDataShared(own, other) == IF other # NULL THEN other ELSE own

\* duckdb_function_get_init_data(info): the init data set by the init call of
\* this scan (own), whatever other scans exist.
GetInitData(own, other) == own

PcapReaderInit(open_ok, oom) ==
    /\ phase = "bound"
    /\ LET r == InitData(stream, is_stdin, open_ok, oom)
           t == InitData(TwinStream, is_stdin, open_ok, oom)
       IN  /\ state' = r.state
           /\ init_error' = r.error
           /\ twin' = [state |-> t.state, error |-> t.error, batches |-> <<>>]
           /\ res' = Tally(res, r.calls, is_stdin)
    /\ phase' = "inited"
    /\ UNCHANGED <<magic, snaplen, recs, stream, is_stdin, max_rows, batches,
                   hdr_reads, oom_pull, last_pull, peer, conv>>

PcapReaderFunction(fail) ==
    /\ phase = "inited"
    /\ Len(batches) < (IF state = NULL THEN MaxNullPulls ELSE MaxPulls)
    /\ LET own == GetInitData(state, peer.state)
           r   == Chunk(stream, own, max_rows, fail)
           t   == Chunk(TwinStream, twin.state, max_rows, fail)
       IN  /\ state' = r.state
           /\ batches' = Append(batches, r.rows)
           /\ hdr_reads' = hdr_reads + r.reads
           /\ oom_pull' = IF oom_pull = 0 /\ r.oom THEN Len(batches) + 1
                          ELSE oom_pull
           /\ twin' = [twin EXCEPT !.state = t.state,
                                   !.batches = Append(@, t.rows)]
           /\ res' = Tally(res, PullCalls(r.log), is_stdin)
           /\ last_pull' = [before |-> own, log |-> r.log, oom |-> r.oom]
    /\ UNCHANGED <<magic, snaplen, recs, stream, is_stdin, max_rows, phase,
                   init_error, peer, conv>>

PcapReaderInitDataFree ==
    /\ phase = "inited"
    /\ state # NULL
    /\ state' = NULL
    /\ twin' = [twin EXCEPT !.state = NULL]
    /\ res' = Tally(res, FreeCalls(state), is_stdin)
    /\ phase' = "freed"
    /\ UNCHANGED <<magic, snaplen, recs, stream, is_stdin, max_rows,
                   init_error, batches, hdr_reads, oom_pull, last_pull,
                   peer, conv>>

InitCall == \E open_ok \in BOOLEAN, oom \in {"none", "state", "buffer"} :
                PcapReaderInit(open_ok, oom)

Pull == \E fail \in 0..max_rows : PcapReaderFunction(fail)

Next == InitCall \/ Pull \/ PcapReaderInitDataFree

\* Every scan, allocation failures included.
Spec == Init /\ [][Next]_vars

InitCallNominal == \E open_ok \in BOOLEAN : PcapReaderInit(open_ok, "none")

PullNominal == PcapReaderFunction(0)

NextNominal == InitCallNominal \/ PullNominal \/ PcapReaderInitDataFree

\* The scans in which every duckdb_malloc returns a block.
SpecNominal == Init /\ [][NextNominal]_vars

\* ------------------------------------------------------ a scan to its end
\* the last chunk returned was empty: the host stops calling the function
Ended == batches # <<>> /\ batches[Len(batches)] = <<>>

\* The host calls the function again until it returns an empty chunk.
PullScan == ~Ended /\ Pull

\* The host destroys the init data when the scan has ended.
FreeScan == Ended /\ PcapReaderInitDataFree

NextScan == InitCall \/ PullScan \/ FreeScan

\* ENABLED <<InitCall>>_vars: init has not been called.
InitDue == phase = "bound"

\* ENABLED <<PullScan>>_vars: the function is installed, it has not yet
\* returned an empty chunk, and the model lets it be called once more.
PullDue ==
    /\ phase = "inited" /\ ~Ended
    /\ Len(batches) < (IF state = NULL THEN MaxNullPulls ELSE MaxPulls)

\* WF_vars(InitCall) /\ WF_vars(PullScan) with the two ENABLED predicates
\* written out: the host calls init, and it calls the function again as long
\* as the last chunk was not empty.
HostCalls ==
    /\ []<>~InitDue \/ []<><<InitCall>>_vars
    /\ []<>~PullDue \/ []<><<PullScan>>_vars

\* A scan the host runs to its end: it calls init, then the function until a
\* chunk is empty; allocation failures included.
SpecScan == Init /\ [][NextScan]_vars /\ HostCalls

\* ------------------------------------------------------ two scans
\* The files of the second scan: a byte-swapped nanosecond file with snaplen
\* 0 whose two records both make the buffer grow, and a byte-swapped
\* microsecond file with snaplen 2 and one record without payload.
PeerFiles ==
    LET small == CHOOSE r \in Pool : Len(r.data) = 2
        large == CHOOSE r \in Pool : Len(r.data) = 16
        none  == CHOOSE r \in Pool : Len(r.data) = 0
    IN  {EncodeFile(PCAP_MAGIC_NANO_SWAPPED, ToU32(0), <<small, large>>, FALSE),
         EncodeFile(PCAP_MAGIC_SWAPPED, ToU32(2), <<none>>, FALSE)}

\* Two scans of two named files, each whole, before their init calls.
InitPair ==
    /\ magic = PCAP_MAGIC_NATIVE
    /\ snaplen = ToU32(0)
    /\ recs \in RecSeqs
    /\ stream = EncodeFile(magic, snaplen, recs, FALSE)
    /\ is_stdin = FALSE
    /\ max_rows \in 1..MaxBatch
    /\ Bound
    /\ \E s \in PeerFiles : peer = [NoPeer EXCEPT !.stream = s, !.phase = "bound"]
    /\ conv = NoConv

PeerInit ==
    /\ peer.phase = "bound"
    /\ LET r == InitData(peer.stream, FALSE, TRUE, "none")
       IN  peer' = [peer EXCEPT !.state = r.state, !.init_error = r.error,
                                !.phase = "inited"]
    /\ UNCHANGED <<magic, snaplen, recs, stream, is_stdin, max_rows, phase,
                   state, init_error, batches, hdr_reads, oom_pull, twin, res,
                   last_pull, conv>>

PeerFunction ==
    /\ peer.phase = "inited"
    /\ Len(peer.batches) < MaxPulls
    /\ LET own == GetInitData(peer.state, state)
           r   == Chunk(peer.stream, own, max_rows, 0)
       IN  peer' = [peer EXCEPT !.state = r.state,
                                !.batches = Append(@, r.rows)]
    /\ UNCHANGED <<magic, snaplen, recs, stream, is_stdin, max_rows, phase,
                   state, init_error, batches, hdr_reads, oom_pull, twin, res,
                   last_pull, conv>>

PeerInitDataFree ==
    /\ peer.phase = "inited"
    /\ peer.state # NULL
    /\ peer' = [peer EXCEPT !.state = NULL, !.phase = "freed"]
    /\ UNCHANGED <<magic, snaplen, recs, stream, is_stdin, max_rows, phase,
                   state, init_error, batches, hdr_reads, oom_pull, twin, res,
                   last_pull, conv>>

InitCallPair == PcapReaderInit(TRUE, "none")

NextPair ==
    \/ InitCallPair \/ PullNominal \/ PcapReaderInitDataFree
    \/ PeerInit \/ PeerFunction \/ PeerInitDataFree

\* Two scans, their calls interleaved in every order; every fopen and every
\* duckdb_malloc succeeds.
SpecPair == InitPair /\ [][NextPair]_vars

\* ------------------------------------------------------ one conversion
\* seconds: 0, 1, 2^31 - 1, 2^31, 2^32 - 2, 2^32 - 1
Seconds ==
    {<<0, 0, 0, 0>>, <<0, 0, 0, 1>>, <<127, 255, 255, 255>>, <<128, 0, 0, 0>>,
     <<255, 255, 255, 254>>, <<255, 255, 255, 255>>}

\* fractions: 0, 1, 999, 999999, 1000000, 999999999, 2^32 - 1
Fractions ==
    {<<0, 0, 0, 0>>, <<0, 0, 0, 1>>, ToU32(999), ToU32(999999), ToU32(1000000),
     ToU32(999999999), <<255, 255, 255, 255>>}

Headers ==
    [ts_sec : Seconds, ts_usec : Fractions, caplen : {<<0, 0, 0, 0>>},
     len : {<<0, 0, 0, 0>>}]

\* Two packet headers as the loop holds them after the swap, and the unit of
\* the file; no file is being scanned.
InitConv ==
    /\ magic = PCAP_MAGIC_NATIVE /\ snaplen = ToU32(0) /\ recs = <<>>
    /\ stream = <<>> /\ is_stdin = FALSE /\ max_rows = 1
    /\ Bound
    /\ peer = NoPeer
    /\ \E a \in Headers, b \in Headers, nano \in BOOLEAN :
          conv = [phase |-> "input", a |-> a, b |-> b, is_nanosecond |-> nano,
                  ts_a |-> <<>>, ts_b |-> <<>>]

\* Convert timestamp to nanoseconds, for both headers.
ConvertTimestamps ==
    /\ conv.phase = "input"
    /\ conv' = [conv EXCEPT !.phase = "done",
                            !.ts_a = TimestampNs(conv.a, conv.is_nanosecond),
                            !.ts_b = TimestampNs(conv.b, conv.is_nanosecond)]
    /\ UNCHANGED <<magic, snaplen, recs, stream, is_stdin, max_rows, phase,
                   state, init_error, batches, hdr_reads, oom_pull, twin, res,
                   last_pull, peer>>

NextConv == ConvertTimestamps

\* The timestamp conversion of the loop on its own, over boundary values of
\* the two 32-bit fields.
SpecConv == InitConv /\ [][NextConv]_vars

\* ====================================================== properties
\* ------------------------------------------------------ reference values
\* A uint64_t in decimal: its 8 base-1000 limbs, least significant first,
\* by long division of the bytes by 10^6 (two limbs at a time).
RECURSIVE DivFrom(_, _, _, _)
DivFrom(x, d, i, rem) ==
    IF i > Len(x) THEN [q |-> <<>>, r |-> rem]
    ELSE LET t    == rem * 256 + x[i]
             rest == DivFrom(x, d, i + 1, t % d)
         IN  [q |-> <<t \div d>> \o rest.q, r |-> rest.r]

RECURSIVE DecLimbs(_, _)
DecLimbs(x, n) ==
    IF n = 0 THEN <<>>
    ELSE LET qr == DivFrom(x, 1000000, 1, 0)
         IN  <<qr.r % 1000, qr.r \div 1000>> \o DecLimbs(qr.q, n - 1)

Dec(x) == DecLimbs(x, 4)

\* a uint32_t in decimal, on 8 limbs (it is below 10^12)
Dec32(v) == DecLimbs(v, 2) \o <<0, 0, 0, 0>>

\* l * 1000^k on 8 limbs
DecShift(l, k) == [i \in 1..8 |-> IF i <= k THEN 0 ELSE l[i - k]]

RECURSIVE DecAddFrom(_, _, _, _)
DecAddFrom(a, b, i, carry) ==
    IF i > 8 THEN <<>>
    ELSE LET t == a[i] + b[i] + carry
         IN  <<t % 1000>> \o DecAddFrom(a, b, i + 1, t \div 1000)

\* seconds * 1_000_000_000 + fraction * scale as an unbounded integer, in
\* decimal (8 limbs hold every value below 10^24).
RefTimestamp(sec, frac, nano) ==
    DecAddFrom(DecShift(Dec32(sec), 3),
               DecShift(Dec32(frac), IF nano THEN 0 ELSE 1), 1, 0)

\* the reference timestamp of every record of the pool, in both units
RefTable ==
    [r \in Pool |->
        [nano \in BOOLEAN |-> RefTimestamp(r.ts_sec, r.ts_usec, nano)]]

NanoMagic(m) == m \in {PCAP_MAGIC_NANO_NATIVE, PCAP_MAGIC_NANO_SWAPPED}

\* row is the record r of a file written under the magic m
RowIs(row, r, m) ==
    /\ Dec(row.timestamp_ns) = RefTable[r][NanoMagic(m)]
    /\ row.original_len = r.len
    /\ row.capture_len = ToU32(Len(r.data))
    /\ row.data = r.data

RECURSIVE Flatten(_)
Flatten(bs) == IF bs = <<>> THEN <<>> ELSE Head(bs) \o Flatten(Tail(bs))

\* the index of the first empty batch, 0 when there is none
FirstEmpty(bs) ==
    IF \E i \in DOMAIN bs : bs[i] = <<>>
    THEN CHOOSE i \in DOMAIN bs :
            bs[i] = <<>> /\ \A j \in 1..(i - 1) : bs[j] # <<>>
    ELSE 0

UpToFirstEmpty(bs) == Flatten(SubSeq(bs, 1, FirstEmpty(bs) - 1))

RowsAre(rows, rs, m) ==
    /\ Len(rows) = Len(rs)
    /\ \A i \in DOMAIN rows : RowIs(rows[i], rs[i], m)

RowsBegin(rows, rs, m) ==
    /\ Len(rows) <= Len(rs)
    /\ \A i \in DOMAIN rows : RowIs(rows[i], rs[i], m)

RECURSIVE FileLen(_)
FileLen(rs) ==
    IF rs = <<>> THEN FileHeaderSize
    ELSE PacketHeaderSize + Len(Head(rs).data) + FileLen(Tail(rs))

WholeFile == Len(stream) = FileLen(recs)

\* the records that are in the file with all their bytes
CompleteRecs == IF WholeFile THEN recs ELSE Front(recs)

Opened == phase # "bound" /\ init_error # "Failed to open pcap file"

\* ------------------------------------------------------ C1
\* C1: for a whole file with one of the four magics and every batch size, the
\* rows returned so far are the first records of the file in order, and the
\* batches up to the first empty one are exactly all its records.
C1_RoundTrip ==
    (Opened /\ magic \in ValidMagics /\ WholeFile) =>
        /\ init_error = "none"
        /\ RowsBegin(Flatten(batches), recs, magic)
        /\ FirstEmpty(batches) # 0 => RowsAre(UpToFirstEmpty(batches), recs, magic)

C1_Witness ==
    /\ phase = "inited" /\ magic = PCAP_MAGIC_NANO_SWAPPED /\ WholeFile
    /\ Len(recs) = 2 /\ max_rows = 1
    /\ Len(batches) = 3
    /\ batches[1] # <<>> /\ batches[2] # <<>> /\ batches[3] = <<>>

\* ------------------------------------------------------ C2
Negotiated(swap, nano) ==
    \/ init_error = "Failed to allocate packet buffer" /\ state = NULL
    \/ /\ init_error = "none"
       /\ state # NULL
       /\ state.needs_swap = swap
       /\ state.is_nanosecond = nano

\* C2: once the 24 header bytes are read, the magic 0xa1b2c3d4 gives (no
\* swap, microsecond), 0xd4c3b2a1 (swap, microsecond), 0xa1b23c4d (no swap,
\* nanosecond), 0x4d3cb2a1 (swap, nanosecond), and every other magic the
\* invalid-magic error and no decoder state.
C2_Negotiation ==
    (/\ phase = "inited"
     /\ Len(stream) >= FileHeaderSize
     /\ init_error \notin {"Failed to open pcap file",
                           "Failed to allocate memory for init state"}) =>
        CASE magic = <<161, 178, 195, 212>> -> Negotiated(FALSE, FALSE)
          [] magic = <<212, 195, 178, 161>> -> Negotiated(TRUE, FALSE)
          [] magic = <<161, 178, 60, 77>>   -> Negotiated(FALSE, TRUE)
          [] magic = <<77, 60, 178, 161>>   -> Negotiated(TRUE, TRUE)
          [] OTHER -> /\ init_error = "Invalid pcap file magic number"
                      /\ state = NULL

C2_Witness ==
    /\ phase = "inited" /\ magic = <<77, 60, 178, 161>>
    /\ state # NULL /\ state.needs_swap /\ state.is_nanosecond

\* ------------------------------------------------------ C3
\* C3: when the file cannot be opened, holds fewer than 24 bytes or has none
\* of the four magics, init reports an error; and after an init error there
\* is no decoder state, no packet header is ever requested from the file and
\* every pull returns an empty batch.
C3_NegotiationFailure ==
    /\ (/\ phase # "bound"
        /\ \/ init_error = "Failed to open pcap file"
           \/ Len(stream) < FileHeaderSize
           \/ magic \notin ValidMagics) => init_error # "none"
    /\ init_error # "none" =>
          /\ state = NULL
          /\ hdr_reads = 0
          /\ \A i \in DOMAIN batches : batches[i] = <<>>

C3_Witness ==
    /\ init_error = "Invalid pcap file magic number"
    /\ Len(recs) = 1
    /\ Len(batches) = 2

\* ------------------------------------------------------ C4
\* C4: for a file with a valid header, k complete records and a cut tail
\* (nothing, part of a packet header, or a packet header with part of its
\* payload), no error is reported, the rows returned so far are the first of
\* the k records, and the batches up to the first empty one are exactly the k
\* records: the cut record gives no row.
C4_Truncation ==
    (Opened /\ magic \in ValidMagics /\ Len(stream) >= FileHeaderSize) =>
        /\ init_error = "none"
        /\ RowsBegin(Flatten(batches), CompleteRecs, magic)
        /\ FirstEmpty(batches) # 0 =>
              RowsAre(UpToFirstEmpty(batches), CompleteRecs, magic)

C4_Witness ==
    /\ phase = "inited" /\ Len(recs) = 2 /\ max_rows = 2
    /\ Len(recs[2].data) > 0
    /\ Len(stream) = FileLen(recs) - 1
    /\ Len(batches) = 2 /\ Len(batches[1]) = 1 /\ batches[2] = <<>>

\* ------------------------------------------------------ C5
\* C5: a pull of an installed decoder returns an empty batch only when every
\* complete record of the file has been decoded.
C5_EmptyOnlyAtEnd ==
    (/\ init_error = "none" /\ magic \in ValidMagics
     /\ batches # <<>> /\ batches[Len(batches)] = <<>>) =>
        Len(Flatten(batches)) >= Len(CompleteRecs)

\* ------------------------------------------------------ C6
\* C6: the pull in which duckdb_malloc fails returns the rows before the
\* record it failed on, and no later pull returns a row.
C6_AllocFailureFatal ==
    (oom_pull # 0 /\ magic \in ValidMagics) =>
        /\ RowsBegin(Flatten(SubSeq(batches, 1, oom_pull)), CompleteRecs, magic)
        /\ \A i \in DOMAIN batches : i > oom_pull => batches[i] = <<>>

\* ------------------------------------------------------ C7
\* the first record with a payload, 0 when there is none
FirstWithPayload(rs) ==
    IF \E i \in DOMAIN rs : rs[i].data # <<>>
    THEN CHOOSE i \in DOMAIN rs :
            rs[i].data # <<>> /\ \A j \in 1..(i - 1) : rs[j].data = <<>>
    ELSE 0

\* C7: with a valid magic and snaplen 0, init installs a decoder whose buffer
\* capacity is 0; the first record with a payload is returned as it was
\* written, the capacity is then at least its captured length, and exactly
\* that length right after its payload is read.
C7_SnaplenZero ==
    (/\ Opened /\ phase = "inited" /\ magic \in ValidMagics
     /\ snaplen = ToU32(0) /\ Len(stream) >= FileHeaderSize) =>
        /\ init_error = "none"
        /\ state # NULL
        /\ hdr_reads = 0 => state.buffer_size = <<0, 0, 0, 0>>
        /\ LET j    == FirstWithPayload(CompleteRecs)
               rows == Flatten(batches)
           IN  (j # 0 /\ Len(rows) >= j) =>
                  /\ RowIs(rows[j], recs[j], magic)
                  /\ ~U32Gt(ToU32(Len(recs[j].data)), state.buffer_size)
                  /\ state.file.pos = FileLen(SubSeq(recs, 1, j)) =>
                        state.buffer_size = ToU32(Len(recs[j].data))

C7_Witness ==
    /\ phase = "inited" /\ snaplen = ToU32(0) /\ state # NULL
    /\ Len(recs) = 2 /\ Len(recs[1].data) = 2
    /\ Len(Flatten(batches)) = 1
    /\ state.buffer_size = <<0, 0, 0, 2>>

\* ------------------------------------------------------ C8
\* C8: a record with captured length 0 is returned as a row with capture_len
\* 0 and an empty payload, and the scan does not end on it: the batches up to
\* the first empty one hold a row for every complete record of the file.
C8_ZeroLength ==
    (Opened /\ magic \in ValidMagics /\ Len(stream) >= FileHeaderSize) =>
        \A i \in DOMAIN CompleteRecs :
            CompleteRecs[i].data = <<>> =>
                LET rows == Flatten(batches) IN
                /\ Len(rows) >= i =>
                      /\ rows[i].capture_len = <<0, 0, 0, 0>>
                      /\ rows[i].data = <<>>
                      /\ rows[i].original_len = recs[i].len
                /\ FirstEmpty(batches) # 0 =>
                      Len(UpToFirstEmpty(batches)) = Len(CompleteRecs)

C8_Witness ==
    /\ WholeFile /\ Len(recs) = 2 /\ max_rows = 1
    /\ recs[1].data = <<>> /\ recs[2].data # <<>>
    /\ Len(batches) = 2
    /\ Len(batches[1]) = 1 /\ batches[1][1].data = <<>>
    /\ Len(batches[2]) = 1 /\ batches[2][1].data = recs[2].data

\* ------------------------------------------------------ C9
\* C9: the scan of a file with a native-order magic and the scan of the file
\* with magic, snaplen and packet header fields byte-reversed return the same
\* batches and the same init outcome, and leave the same buffer capacity.
C9_SwapEquivalence ==
    magic \in {PCAP_MAGIC_NATIVE, PCAP_MAGIC_NANO_NATIVE} =>
        /\ twin.batches = batches
        /\ twin.error = init_error
        /\ (twin.state = NULL) = (state = NULL)
        /\ state # NULL =>
              /\ twin.state.buffer_size = state.buffer_size
              /\ twin.state.needs_swap /\ ~state.needs_swap

C9_Witness ==
    /\ magic = PCAP_MAGIC_NATIVE /\ snaplen = ToU32(2)
    /\ state # NULL /\ twin.state.needs_swap
    /\ Len(Flatten(twin.batches)) = 2
    /\ state.buffer_size = <<0, 0, 0, 16>>

\* ------------------------------------------------------ C10
\* C10: the timestamp_ns of the row of a record is seconds * 1_000_000_000 +
\* fraction * 1_000 under a microsecond magic and seconds * 1_000_000_000 +
\* fraction under a nanosecond one; microsecond (1, 500000) gives
\* 1_500_000_000 and nanosecond (1, 500) gives 1_000_000_500.
C10_Timestamp ==
    (Opened /\ magic \in ValidMagics) =>
        LET rows == Flatten(batches) IN
        \A i \in DOMAIN rows \cap DOMAIN recs :
            LET sec  == recs[i].ts_sec
                frac == recs[i].ts_usec
                nano == magic \in {<<161, 178, 60, 77>>, <<77, 60, 178, 161>>}
            IN  /\ Dec(rows[i].timestamp_ns) = RefTimestamp(sec, frac, nano)
                /\ (~nano /\ sec = ToU32(1) /\ frac = ToU32(500000)) =>
                      rows[i].timestamp_ns = U64FromU32(ToU32(1500000000))
                /\ (nano /\ sec = ToU32(1) /\ frac = ToU32(500)) =>
                      rows[i].timestamp_ns = U64FromU32(ToU32(1000000500))

C10_Witness ==
    /\ magic = PCAP_MAGIC_SWAPPED /\ Len(recs) = 2
    /\ recs[1].ts_usec = ToU32(500000) /\ recs[2].ts_sec = ToU32(5)
    /\ Len(Flatten(batches)) = 2
    /\ Flatten(batches)[1].timestamp_ns = <<0, 0, 0, 0, 89, 104, 47, 0>>

\* ------------------------------------------------------ C11
\* the two 16-bit halves of a uint32_t as numbers
Hi16(v) == v[1] * 256 + v[2]

Lo16(v) == v[3] * 256 + v[4]

\* a exceeds b, as numbers
Exceeds(a, b) == Hi16(a) > Hi16(b) \/ (Hi16(a) = Hi16(b) /\ Lo16(a) > Lo16(b))

\* the capacity the iterations of the last pull leave
CapacityAfter(p) ==
    IF p.log = <<>> THEN p.before.buffer_size
    ELSE p.log[Len(p.log)].size_at_read

\* C11: the capacity is the snaplen the file was written with until the first
\* packet header is read; in every iteration of every pull it does not
\* decrease, changes only by a replacement, which happens exactly when the
\* captured length exceeds it and a new buffer is obtained, and which makes it
\* the captured length; it is at least the captured length at every payload
\* read; and while no allocation has failed every row returned so far,
\* whatever replacements came after it, carries the payload of its record.
C11_BufferGrowth ==
    /\ (state # NULL /\ hdr_reads = 0) => state.buffer_size = snaplen
    /\ last_pull.before # NULL =>
          LET log == last_pull.log IN
          /\ \A i \in DOMAIN log :
                LET e == log[i] IN
                /\ e.size_before = IF i = 1 THEN last_pull.before.buffer_size
                                   ELSE log[i - 1].size_at_read
                /\ ~Exceeds(e.size_before, e.size_at_read)
                /\ e.grew = (Exceeds(e.caplen, e.size_before) /\ e.outcome # "oom")
                /\ e.size_at_read = IF e.grew THEN e.caplen ELSE e.size_before
                /\ e.outcome \in {"row", "short_payload"} =>
                      ~Exceeds(e.caplen, e.size_at_read)
          /\ state # NULL => state.buffer_size = CapacityAfter(last_pull)
    /\ (oom_pull = 0 /\ magic \in ValidMagics) =>
          LET rows == Flatten(batches) IN
          /\ Len(rows) <= Len(CompleteRecs)
          /\ \A i \in DOMAIN rows :
                /\ rows[i].data = recs[i].data
                /\ rows[i].capture_len = ToU32(Len(recs[i].data))

\* snaplen 2, captured lengths 2 and 16: one pull returns both payloads, the
\* buffer being kept for the first and replaced for the second
C11_Witness ==
    /\ snaplen = ToU32(2) /\ max_rows = 2 /\ Len(recs) = 2
    /\ Len(batches) = 1 /\ Len(batches[1]) = 2
    /\ batches[1][1].data = <<170, 187>>
    /\ Len(batches[1][2].data) = 16
    /\ ~last_pull.log[1].grew /\ last_pull.log[2].grew
    /\ state.buffer_size = <<0, 0, 0, 16>>

\* ------------------------------------------------------ C12
\* the captured length in the packet header at offset p of the file, read in
\* the byte order the magic of the file states
CaplenAt(p) ==
    IF Foreign(magic)
    THEN <<stream[p + 9], stream[p + 10], stream[p + 11], stream[p + 12]>>
    ELSE <<stream[p + 12], stream[p + 11], stream[p + 10], stream[p + 9]>>

\* the offset after the record at offset p, 0 when the file does not hold it
\* with all its bytes
RecordEnd(p) ==
    IF p + PacketHeaderSize > Len(stream) THEN 0
    ELSE LET c == CaplenAt(p) IN
         IF Hi16(c) # 0 \/ p + PacketHeaderSize + Lo16(c) > Len(stream) THEN 0
         ELSE p + PacketHeaderSize + Lo16(c)

\* the offset after k complete records from offset p on, 0 when there are
\* fewer than k
RECURSIVE RecordsEnd(_, _)
RecordsEnd(p, k) ==
    IF k = 0 THEN p
    ELSE IF RecordEnd(p) = 0 THEN 0
    ELSE RecordsEnd(RecordEnd(p), k - 1)

\* the last pull ended on the end of the file, on a short packet header, on a
\* short payload or on a failed allocation, as the file itself shows
EndedEarly(p) ==
    \/ p.before.file.eof
    \/ /\ p.log # <<>>
       /\ LET e == p.log[Len(p.log)] IN
          \/ e.outcome = "short_header" /\ RecordsEnd(e.pos, 1) = 0
                                        /\ e.pos + PacketHeaderSize > Len(stream)
          \/ e.outcome = "short_payload" /\ RecordsEnd(e.pos, 1) = 0
                                         /\ e.pos + PacketHeaderSize <= Len(stream)
          \/ e.outcome = "oom" /\ p.oom /\ Exceeds(e.caplen, e.size_before)

\* C12: a pull returns at most max_rows rows; a pull of a decoder returns
\* fewer only when it was at the end of the file or ended on a short packet
\* header, a short payload or a failed allocation; and a pull in which no
\* allocation fails and that has max_rows complete records ahead of its
\* position returns max_rows rows and leaves the position right after them.
C12_BatchSize ==
    /\ \A i \in DOMAIN batches : Len(batches[i]) <= max_rows
    /\ (batches # <<>> /\ last_pull.before # NULL) =>
          LET rows  == batches[Len(batches)]
              ahead == RecordsEnd(last_pull.before.file.pos, max_rows)
          IN  /\ Len(last_pull.log) <= max_rows
              /\ Len(rows) < max_rows => EndedEarly(last_pull)
              /\ (ahead # 0 /\ ~last_pull.oom) =>
                    /\ Len(rows) = max_rows
                    /\ phase = "inited" => state.file.pos = ahead

\* batch size 1 and two records: the first pull returns one row and stops at
\* the packet header of the second record
C12_Witness ==
    /\ max_rows = 1 /\ Len(recs) = 2 /\ WholeFile /\ phase = "inited"
    /\ recs[1].data # <<>>
    /\ Len(batches) = 1 /\ Len(batches[1]) = 1
    /\ state.file.pos = FileHeaderSize + PacketHeaderSize + Len(recs[1].data)

\* ------------------------------------------------------ C13
\* no resource was released that was not held, none used after its release
NoMisuse ==
    /\ ~res.bad
    /\ res.fclose <= res.fopen
    /\ res.free_buffer <= res.malloc_buffer
    /\ res.free_state <= res.malloc_state

\* what the decoder holds between a successful init and its destructor: the
\* state, one buffer, and the file it opened
Held ==
    (phase = "inited" /\ init_error = "none") =>
        /\ res.malloc_state - res.free_state = 1
        /\ res.malloc_buffer - res.free_buffer = 1
        /\ res.fopen - res.fclose = IF is_stdin THEN 0 ELSE 1

\* C13 as stated: no misuse, and the stream has been closed once the decoder
\* is discarded or the negotiation has failed after the file was opened.
C13_ReleasedOnce ==
    /\ NoMisuse
    /\ phase = "freed" =>
          /\ res.fclose = 1
          /\ res.free_buffer = res.malloc_buffer /\ res.malloc_buffer >= 1
    /\ (init_error # "none" /\ res.fopen = 1) => res.fclose = 1

\* C13 amended: no resource is released twice or used after its release; once
\* the decoder is discarded, after the end of the file, after an allocation
\* failure or in mid-scan, its state and every buffer it obtained are
\* released and the file it opened is closed; when init fails, the file it
\* opened is closed and its state released before it returns, and no buffer
\* is held; standard input, which the decoder does not open, is never closed.
C13_ReleasedOnceUnlessStdin ==
    /\ NoMisuse
    /\ Held
    /\ res.fopen = (IF is_stdin \/ res.malloc_state = 0
                       \/ init_error = "Failed to open pcap file" THEN 0 ELSE 1)
    /\ is_stdin => res.fclose = 0
    /\ phase = "freed" =>
          /\ res.fclose = res.fopen
          /\ res.free_buffer = res.malloc_buffer /\ res.malloc_buffer >= 1
          /\ res.free_state = 1 /\ res.malloc_state = 1
    /\ init_error # "none" =>
          /\ res.fclose = res.fopen
          /\ res.free_state = res.malloc_state
          /\ res.malloc_buffer = 0 /\ res.free_buffer = 0

\* a decoder on standard input discarded after a pull in which the second
\* growth of the buffer failed
C13_Witness ==
    /\ phase = "freed" /\ is_stdin /\ oom_pull # 0
    /\ res.malloc_buffer = 2 /\ res.free_buffer = 2
    /\ res.fclose = 0 /\ res.free_state = 1

\* ------------------------------------------------------ C14
\* A scan run alone on the file s: the init data and the chunks after init
\* and n pulls.
RECURSIVE Alone(_, _, _)
Alone(s, rows_max, n) ==
    IF n = 0
    THEN [state |-> InitData(s, FALSE, TRUE, "none").state, batches |-> <<>>]
    ELSE LET before == Alone(s, rows_max, n - 1)
             r      == Chunk(s, before.state, rows_max, 0)
         IN  [state |-> r.state, batches |-> Append(before.batches, r.rows)]

\* C14: whatever the other scan has done so far, each scan has returned the
\* chunks it returns when run alone, and until its destructor runs its init
\* data (file position, flags, buffer, capacity) is what it is when run alone.
C14_Independence ==
    /\ phase # "bound" =>
          LET a == Alone(stream, max_rows, Len(batches)) IN
          /\ batches = a.batches
          /\ phase = "inited" => state = a.state
    /\ peer.phase \in {"inited", "freed"} =>
          LET a == Alone(peer.stream, max_rows, Len(peer.batches)) IN
          /\ peer.batches = a.batches
          /\ peer.phase = "inited" => peer.state = a.state

\* both scans under way, each with a buffer it has replaced
C14_Witness ==
    /\ phase = "inited" /\ peer.phase = "inited"
    /\ Len(batches) = 2 /\ Len(peer.batches) = 2
    /\ Len(Flatten(batches)) = 2 /\ Len(Flatten(peer.batches)) = 2
    /\ snaplen = ToU32(0)
    /\ state.buffer_size = <<0, 0, 0, 2>>
    /\ peer.state.buffer_size = <<0, 0, 0, 16>>

\* ------------------------------------------------------ C15
\* C15: once a pull has returned an empty batch, every later pull returns an
\* empty batch.
C15_StickyEmpty ==
    \A i \in DOMAIN batches : \A j \in DOMAIN batches :
        (i < j /\ batches[i] = <<>>) => batches[j] = <<>>

\* ------------------------------------------------------ C16
\* the rows a file of n bytes can give when each takes 16 bytes or more
MostRows(n) ==
    IF n < FileHeaderSize THEN 0 ELSE (n - FileHeaderSize) \div PacketHeaderSize

\* the last pull made at most max_rows iterations, each starting after the
\* one before, and moved the position forward by 16 bytes or more for every
\* row it returned; the pulls so far are no more than the rows the file can
\* give and one
ScanProgress ==
    /\ Len(last_pull.log) <= max_rows
    /\ Len(batches) <= MostRows(Len(stream)) + 1
    /\ (last_pull.before # NULL /\ phase = "inited") =>
          LET log == last_pull.log IN
          /\ \A i \in DOMAIN log :
                /\ log[i].pos >= last_pull.before.file.pos
                /\ i > 1 => log[i].pos >= log[i - 1].pos + PacketHeaderSize
          /\ state.file.pos >= last_pull.before.file.pos
                                 + PacketHeaderSize * Len(batches[Len(batches)])
          /\ state.file.pos <= Len(stream)

\* C16: in a scan the host runs to its end, the position never moves
\* backwards, every row takes 16 bytes or more of the file, every pull makes
\* at most max_rows iterations, and a pull returns an empty chunk after at
\* most as many pulls as the file can give rows, and one.
C16_Termination == []ScanProgress /\ <>Ended

\* batch size 1: two chunks of one row, then the empty one
C16_Witness ==
    /\ max_rows = 1 /\ Len(batches) = 3 /\ Ended
    /\ Len(batches[1]) = 1 /\ Len(batches[2]) = 1
    /\ state # NULL /\ state.file.pos = Len(stream)

\* ------------------------------------------------------ C17
\* 2^64 = 18 446 744 073 709 551 616 in decimal limbs
TwoTo64 == <<616, 551, 709, 73, 744, 446, 18, 0>>

\* a < b on decimal limbs
DecLess(a, b) ==
    \E i \in 1..8 : a[i] < b[i] /\ \A j \in (i + 1)..8 : a[j] = b[j]

\* a <= b on byte tuples of one length, most significant byte first
BytesLeq(a, b) ==
    a = b \/ \E i \in DOMAIN a : a[i] < b[i] /\ \A j \in 1..(i - 1) : a[j] = b[j]

\* C17: for seconds and fraction at the ends of the 32-bit range and in both
\* units, seconds * 1_000_000_000 + fraction * scale as an unbounded integer
\* is below 2^64 and is the timestamp computed; and of two headers with
\* seconds and fraction both no larger in the first, the first has no larger
\* a timestamp.
C17_NoWrap ==
    conv.phase = "done" =>
        LET ref_a == RefTimestamp(conv.a.ts_sec, conv.a.ts_usec, conv.is_nanosecond)
        IN  /\ DecLess(ref_a, TwoTo64)
            /\ Dec(conv.ts_a) = ref_a
            /\ (/\ BytesLeq(conv.a.ts_sec, conv.b.ts_sec)
                /\ BytesLeq(conv.a.ts_usec, conv.b.ts_usec)) =>
                  BytesLeq(conv.ts_a, conv.ts_b)

\* seconds and microseconds both 2^32 - 1 give 4 294 971 589 967 295 000
C17_Witness ==
    /\ conv.phase = "done" /\ ~conv.is_nanosecond
    /\ conv.a.ts_sec = <<255, 255, 255, 255>>
    /\ conv.a.ts_usec = <<255, 255, 255, 255>>
    /\ conv.ts_a = <<59, 154, 205, 231, 196, 101, 50, 24>>

====
